---- MODULE Spec2Model ----
(***************************************************************************)
(* A model of src/models/lipreader/better_model.py: the VideoEncoder and   *)
(* the CharDecodingStep of the lipreading sequence model.                  *)
(*                                                                         *)
(* Tensors are sequences (1-based; index k of the model is index k-1 of    *)
(* the source).  The learned layers (nn.LSTM/GRU/RNN, nn.Linear,           *)
(* nn.Embedding) are uninterpreted: their results are terms, tuples headed *)
(* by the layer's name, so two results are equal exactly when the layer    *)
(* was applied to equal arguments.  Floating-point error values are        *)
(* fixed-point numbers with denominator Denom.                             *)
(***************************************************************************)
EXTENDS Integers, Sequences, FiniteSets, TLC

VARIABLES
    enc,          \* the VideoEncoder object (its attributes), or NotConstructed
    dec,          \* the CharDecodingStep object, or NotConstructed
    call,         \* the last constructor or forward call: arguments and outcome
    best_error,   \* best_error of each component
    fs_dirs,      \* the directories that exist
    fs_files,     \* path -> the checkpoint stored there (NoFile when none)
    last_save     \* the last save_best_model call: arguments and outcome

vars == <<enc, dec, call, best_error, fs_dirs, fs_files, last_save>>

(***************************************************************************)
(* Bounds of the model.                                                    *)
(***************************************************************************)
Denom == 4          \* error values are k/Denom
MaxBatch == 3       \* encoder batch sizes 1..MaxBatch
MaxDecBatch == 1    \* decoder batch sizes 1..MaxDecBatch
MaxSeqLen == 2      \* padded sequence lengths 1..MaxSeqLen
MaxLayers == 2      \* num_layers 1..MaxLayers
HiddenSize == 2     \* hidden_size of the encoder
MaxVocab == 3       \* vocab_size (PAD, BOS and MaxVocab - 2 characters)

(***************************************************************************)
(* Generic helpers.                                                        *)
(***************************************************************************)
None == "None"

Max(S) == CHOOSE x \in S : \A y \in S : y <= x

\* torch.cat of two vectors along the feature axis
Cat(u, v) == u \o v

(***************************************************************************)
(* save_best_model (identical in both classes).                            *)
(***************************************************************************)
Components == {"VideoEncoder", "CharDecodingStep"}

\* self.best_error = 1
BestErrorInit == 1

ErrorValues == (0 - 1)..(Denom + 1)

\* File paths as sequences of path components: <<"best.pt">> is "best.pt",
\* <<"ckpt", "model.pt">> is "ckpt/model.pt".
FilePaths == { <<"best.pt">>, <<"ckpt", "model.pt">> }

NoFile == [component |-> None, error |-> 0]

\* os.path.dirname(file_path): everything before the last component; the
\* empty sequence is the empty string ''.
Dirname(file_path) == SubSeq(file_path, 1, Len(file_path) - 1)

\* os.path.exists(folder): os.path.exists('') is False.
Exists(folder, dirs) == folder # <<>> /\ folder \in dirs

\* os.makedirs(folder) raises FileNotFoundError for ''.
MakedirsRaises(folder) == folder = <<>>

\* os.makedirs(folder) creates the folder and every missing parent.
Makedirs(folder, dirs) == dirs \cup { SubSeq(folder, 1, k) : k \in 1..Len(folder) }

\* if error < self.best_error
ImprovesMutGreater(error, best) == error > best

Improves(error, best) == error < best

\* The outcome of one save_best_model(error, file_path) call on component c.
\* io_ok is the environment: whether torch.save manages to write the file.
SaveOutcome(c, error, file_path, io_ok) ==
    LET folder == Dirname(file_path)
        before == [component |-> c, error |-> error, file_path |-> file_path,
                   prev_best |-> best_error[c], called |-> TRUE]
    IN  IF Improves(error, best_error[c])
        THEN \* self.best_error = error comes first
             IF ~Exists(folder, fs_dirs) /\ MakedirsRaises(folder)
             THEN [best |-> error, dirs |-> fs_dirs, files |-> fs_files,
                   rec |-> before @@ [wrote |-> FALSE, raised |-> "FileNotFoundError"]]
             ELSE LET dirs == IF Exists(folder, fs_dirs) THEN fs_dirs
                              ELSE Makedirs(folder, fs_dirs)
                  IN  IF io_ok
                      THEN [best |-> error, dirs |-> dirs,
                            files |-> [fs_files EXCEPT ![file_path] =
                                          [component |-> c, error |-> error]],
                            rec |-> before @@ [wrote |-> TRUE, raised |-> None]]
                      ELSE [best |-> error, dirs |-> dirs, files |-> fs_files,
                            rec |-> before @@ [wrote |-> FALSE, raised |-> "OSError"]]
        ELSE [best |-> best_error[c], dirs |-> fs_dirs, files |-> fs_files,
              rec |-> before @@ [wrote |-> FALSE, raised |-> None]]

SaveBestModel(c, error, file_path, io_ok) ==
    LET o == SaveOutcome(c, error, file_path, io_ok)
    IN  /\ best_error' = [best_error EXCEPT ![c] = o.best]
        /\ fs_dirs' = o.dirs
        /\ fs_files' = o.files
        /\ last_save' = o.rec
        /\ UNCHANGED <<enc, dec, call>>

SaveInit ==
    /\ best_error = [c \in Components |-> BestErrorInit * Denom]
    /\ fs_dirs = {}
    /\ fs_files = [p \in FilePaths |-> NoFile]
    /\ last_save = [component |-> None, error |-> 0, file_path |-> <<>>,
                    prev_best |-> 0, called |-> FALSE, wrote |-> FALSE,
                    raised |-> None]

NextSave ==
    \E c \in Components, error \in ErrorValues, file_path \in FilePaths,
       io_ok \in BOOLEAN :
        SaveBestModel(c, error, file_path, io_ok)

(***************************************************************************)
(* Vocabulary.                                                             *)
(***************************************************************************)
\* from src.data.data_loader import BOS, PAD
PAD == "<pad>"
BOS == "<bos>"

Alphabet == <<"a", "b", "c", "d", "e", "f">>
Chars == { Alphabet[k] : k \in 1..(MaxVocab - 2) }
Symbols == {PAD, BOS} \cup Chars

\* The char2idx mappings of the data loader: injective, onto 0..MaxVocab-1,
\* the characters in alphabetical order around PAD and BOS.
Vocabularies ==
    { m \in [Symbols -> 0..(MaxVocab - 1)] :
        /\ \A x, y \in Symbols : x # y => m[x] # m[y]
        /\ \A j, k \in 1..(MaxVocab - 2) : j < k => m[Alphabet[j]] < m[Alphabet[k]] }

\* The char2idx argument: None (the default) or a mapping.
NoChar2idx == [given |-> FALSE, map |-> [x \in Symbols |-> 0]]
Char2idxArgs == {NoChar2idx} \cup { [given |-> TRUE, map |-> m] : m \in Vocabularies }

(***************************************************************************)
(* Output masks.  A mask over n indices is a sequence of length n: its     *)
(* element k+1 is the source's output_mask[k].                             *)
(***************************************************************************)
\* torch.ones(n)
Ones(n) == [k \in 1..n |-> 1]

\* mask[idx] = 0
SetZero(mask, idx) == [mask EXCEPT ![idx + 1] = 0]

\* mask[idx] = 0 raises IndexError when idx (never negative here) is past the
\* end of the mask
IndexRaises(mask, idx) == idx >= Len(mask)

\* VideoEncoder: self.char2idx[PAD] + 1 and self.char2idx[BOS] + 1 (index 0
\* is the CTC blank)
CtcIndexMutUnshifted(idx) == idx

CtcIndex(idx) == idx + 1

\* CharDecodingStep: self.char2idx[PAD] and self.char2idx[BOS]
DecIndex(idx) == idx

(***************************************************************************)
(* VideoEncoder.__init__                                                   *)
(***************************************************************************)
ALLOWED_RNN_TYPES == {"LSTM", "GRU", "RNN"}
ALLOWED_FRAME_PROCESSING == {"flatten"}
ALLOWED_ATTENTION_TYPES == {"none", "dot", "general", "1_layer_nn", "concat"}

\* assert frame_processing in _ALLOWED_FRAME_PROCESSING
FrameProcessingOkMutAny(frame_processing) == TRUE

FrameProcessingOk(frame_processing) == frame_processing \in ALLOWED_FRAME_PROCESSING

\* assert rnn_type in _ALLOWED_RNN_TYPES
RnnTypeOk(rnn_type) == rnn_type \in ALLOWED_RNN_TYPES

\* if enable_ctc: assert vocab_size > 0 and char2idx is not None
CtcConfigOk(enable_ctc, vocab_size, char2idx) ==
    enable_ctc => (vocab_size > 0 /\ char2idx.given)

NotConstructed ==
    [status |-> "NotConstructed", hidden_size |-> 0, frame_processing |-> None,
     rnn_type |-> None, num_layers |-> 0, bidirectional |-> FALSE,
     enable_ctc |-> FALSE, vocab_size |-> 0, adj_vocab_size |-> 0,
     char2idx |-> NoChar2idx, output_mask |-> <<>>,
     attention_type |-> None, attn_layers |-> {}]

\* The object VideoEncoder(...) builds, or the exception it raises (status).
VideoEncoderInit(hidden_size, frame_processing, rnn_type, num_layers, bidirectional, enable_ctc, vocab_size, char2idx) ==
    LET adj  == vocab_size + 1
        ones == Ones(adj)
        pad  == CtcIndex(char2idx.map[PAD])
        bos  == CtcIndex(char2idx.map[BOS])
        base == [NotConstructed EXCEPT
                    !.status = "ok", !.hidden_size = hidden_size,
                    !.frame_processing = frame_processing,
                    !.rnn_type = rnn_type, !.num_layers = num_layers,
                    !.bidirectional = bidirectional, !.enable_ctc = enable_ctc]
    IN  IF ~FrameProcessingOk(frame_processing) \/ ~RnnTypeOk(rnn_type)
           \/ ~CtcConfigOk(enable_ctc, vocab_size, char2idx)
        THEN [NotConstructed EXCEPT !.status = "AssertionError"]
        ELSE IF ~enable_ctc THEN base
        ELSE IF IndexRaises(ones, pad) \/ IndexRaises(ones, bos)
        THEN [NotConstructed EXCEPT !.status = "IndexError"]
        ELSE [base EXCEPT !.vocab_size = vocab_size, !.adj_vocab_size = adj,
                          !.char2idx = char2idx,
                          !.output_mask = SetZero(SetZero(ones, pad), bos)]

(***************************************************************************)
(* CharDecodingStep.__init__                                               *)
(***************************************************************************)
\* assert attention_type in _ALLOWED_ATTENTION_TYPES
AttentionTypeOk(attention_type) == attention_type \in ALLOWED_ATTENTION_TYPES

\* if attention_type == 'concat': assert attn_hidden_size > 0
ConcatConfigOk(attention_type, attn_hidden_size) ==
    attention_type = "concat" => attn_hidden_size > 0

\* The attention projections the constructor creates.
AttnLayers(attention_type) ==
    CASE attention_type = "1_layer_nn" -> {"attn_proj_1_layer_nn"}
      [] attention_type = "general"    -> {"attn_proj_general"}
      [] attention_type = "concat"     -> {"attn_proj_layer1", "attn_proj_layer2"}
      [] OTHER                         -> {}

\* The object CharDecodingStep(encoder, ...) builds, or the exception raised.
CharDecodingStepInit(encoder, vocab_size, char2idx, attention_type, attn_hidden_size) ==
    LET ones == Ones(vocab_size)
        pad  == DecIndex(char2idx.map[PAD])
        bos  == DecIndex(char2idx.map[BOS])
    IN  IF ~AttentionTypeOk(attention_type)
           \/ ~ConcatConfigOk(attention_type, attn_hidden_size)
        THEN [NotConstructed EXCEPT !.status = "AssertionError"]
        ELSE IF vocab_size < 0
        THEN [NotConstructed EXCEPT !.status = "RuntimeError"]   \* torch.ones(-1)
        ELSE IF ~char2idx.given
        THEN [NotConstructed EXCEPT !.status = "TypeError"]      \* None[PAD]
        ELSE IF IndexRaises(ones, pad) \/ IndexRaises(ones, bos)
        THEN [NotConstructed EXCEPT !.status = "IndexError"]
        ELSE [NotConstructed EXCEPT
                 !.status = "ok",
                 !.hidden_size = encoder.hidden_size
                                   * (IF encoder.bidirectional THEN 2 ELSE 1),
                 !.rnn_type = encoder.rnn_type,
                 !.num_layers = encoder.num_layers,
                 !.vocab_size = vocab_size,
                 !.char2idx = char2idx,
                 !.attention_type = attention_type,
                 !.attn_layers = AttnLayers(attention_type),
                 !.output_mask = SetZero(SetZero(ones, pad), bos)]

NoCall == [kind |-> "none", status |-> None]

\* An exception raised by a constructor or by forward is not caught: the run
\* ends there.
Running == call.status \in {None, "ok"}

\* forward assigns no attribute of its object, so a forward call that follows
\* another one reaches no state the first could not: a run takes the forward
\* calls one at a time, each from a state a constructor left.
Idle == Running /\ call.kind \notin {"enc_forward", "dec_forward"}

\* VideoEncoder(frame_dim, hidden_size, frame_processing, rnn_type, ...)
ConstructEncoder(frame_processing, rnn_type, num_layers, bidirectional, enable_ctc, vocab_size, char2idx) ==
    LET obj == VideoEncoderInit(HiddenSize, frame_processing, rnn_type, num_layers,
                                bidirectional, enable_ctc, vocab_size, char2idx)
    IN  /\ Running
        /\ enc.status = "NotConstructed"
        /\ enc' = IF obj.status = "ok" THEN obj ELSE enc
        /\ call' = [kind |-> "enc_init", status |-> obj.status,
                    frame_processing |-> frame_processing, rnn_type |-> rnn_type,
                    enable_ctc |-> enable_ctc, vocab_size |-> vocab_size,
                    char2idx |-> char2idx]
        /\ UNCHANGED <<dec, best_error, fs_dirs, fs_files, last_save>>

\* CharDecodingStep(encoder, char_dim, vocab_size, char2idx, ...)
ConstructDecoder(vocab_size, char2idx, attention_type, attn_hidden_size) ==
    LET obj == CharDecodingStepInit(enc, vocab_size, char2idx, attention_type,
                                    attn_hidden_size)
    IN  /\ Running
        /\ enc.status = "ok"
        /\ dec.status = "NotConstructed"
        /\ dec' = IF obj.status = "ok" THEN obj ELSE dec
        /\ call' = [kind |-> "dec_init", status |-> obj.status,
                    vocab_size |-> vocab_size, char2idx |-> char2idx,
                    attention_type |-> attention_type,
                    attn_hidden_size |-> attn_hidden_size]
        /\ UNCHANGED <<enc, best_error, fs_dirs, fs_files, last_save>>

\* Constructor arguments, the invalid ones included.
FrameProcessingArgs == {"flatten", "conv"}
RnnTypeArgs == {"LSTM", "GRU", "RNN", "Linear"}
VocabSizeArgs == {0 - 1, 0, MaxVocab}
AttentionTypeArgs == ALLOWED_ATTENTION_TYPES \cup {"bilinear"}
AttnHiddenSizeArgs == {0 - 1, 0, HiddenSize}

(***************************************************************************)
(* Tensor helpers.                                                         *)
(***************************************************************************)
\* tensor.index_select(0, index)
IndexSelect0(tensor, index) == [j \in 1..Len(index) |-> tensor[index[j] ]]

\* tensor.index_select(1, index)
IndexSelect1(tensor, index) == [l \in 1..Len(tensor) |-> IndexSelect0(tensor[l], index)]

\* s[start:stop:step] of a Python sequence (start, stop 0-based, stop excluded)
Slice(s, start, stop, step) ==
    [k \in 1..((stop - start + step - 1) \div step) |-> s[start + (k - 1) * step + 1]]

Perms(n) == { p \in [1..n -> 1..n] : \A j, k \in 1..n : j # k => p[j] # p[k] }

(***************************************************************************)
(* allennlp.nn.util.sort_batch_by_length                                   *)
(***************************************************************************)
\* sequence_lengths.sort(0, descending=True): the permutation_index.  The sort
\* is not stable, so equal lengths may come out in any order.
SortingPermutations(lens) ==
    { p \in Perms(Len(lens)) :
        \A j, k \in 1..Len(lens) : j < k => lens[p[j]] >= lens[p[k]] }

\* permutation_index.sort(0, descending=False) gives reverse_mapping, and
\* restoration_indices = index_range.index_select(0, reverse_mapping)
RestorationIndicesMutForward(permutation_index) == permutation_index

RestorationIndices(permutation_index) ==
    [r \in 1..Len(permutation_index) |->
        CHOOSE j \in 1..Len(permutation_index) : permutation_index[j] = r]

SortBatchByLength(tensor, lens, permutation_index) ==
    [sorted_tensor |-> IndexSelect0(tensor, permutation_index),
     sorted_lens |-> IndexSelect0(lens, permutation_index),
     restoration_indices |-> RestorationIndices(permutation_index)]

(***************************************************************************)
(* The recurrent layer nn.LSTM / nn.GRU / nn.RNN, uninterpreted.  x is one *)
(* sequence of the packed batch: its valid frames only.                    *)
(***************************************************************************)
ZeroVector(n) == [u \in 1..n |-> <<"zero">>]

Directions(bidirectional) == IF bidirectional THEN <<"fwd", "bwd">> ELSE <<"fwd">>

\* The top layer's output at timestep t in direction d reads x[1..t] forward
\* and x[t..] backward.
RnnOut(e, d, x, t) ==
    [u \in 1..e.hidden_size |->
        <<"out", d, u, IF d = "fwd" THEN SubSeq(x, 1, t) ELSE SubSeq(x, t, Len(x))>>]

\* hidden_states of one sequence: (len, num_dir * hidden_size), the directions
\* concatenated along the feature axis by the layer itself
RnnOutputs(e, x) ==
    [t \in 1..Len(x) |->
        IF e.bidirectional THEN Cat(RnnOut(e, "fwd", x, t), RnnOut(e, "bwd", x, t))
        ELSE RnnOut(e, "fwd", x, t)]

\* One slot of h_n or c_n for one sequence: layer l, direction d.
RnnFinal(e, name, l, d, x) == [u \in 1..e.hidden_size |-> <<name, l, d, u, x>>]

\* h_n (or c_n) of a packed batch: (num_layers * num_dir, batch, hidden_size),
\* slot l * num_dir + d for layer l and direction d.
RnnFinalState(e, name, xs) ==
    LET dirs == Directions(e.bidirectional)
        nd   == Len(dirs)
    IN  [slot \in 1..(e.num_layers * nd) |->
            [b \in 1..Len(xs) |->
                RnnFinal(e, name, ((slot - 1) \div nd) + 1,
                         dirs[((slot - 1) % nd) + 1], xs[b])]]

\* final_state: the pair (h_n, c_n) for an LSTM, else h_n alone
RnnState(e, xs) ==
    IF e.rnn_type = "LSTM"
    THEN [is_tuple |-> TRUE,
          parts |-> <<RnnFinalState(e, "h_n", xs), RnnFinalState(e, "c_n", xs)>>]
    ELSE [is_tuple |-> FALSE, parts |-> <<RnnFinalState(e, "h_n", xs)>>]

(***************************************************************************)
(* VideoEncoder._cat_directions                                            *)
(***************************************************************************)
\* torch.cat([a, b], dim=2) of two (layers, batch, hidden) tensors
CatDim2(a, b) ==
    [l \in 1..Len(a) |-> [i \in 1..Len(a[l]) |-> Cat(a[l][i], b[l][i])]]

\* torch.cat([s[0:s.shape[0]:2], s[1:s.shape[0]:2]], dim=2)
CatSlotsMutHalves(s) ==
    CatDim2(Slice(s, 0, Len(s) \div 2, 1), Slice(s, Len(s) \div 2, Len(s), 1))

CatSlots(s) == CatDim2(Slice(s, 0, Len(s), 2), Slice(s, 1, Len(s), 2))

cat_directions(final_state) ==
    [final_state EXCEPT !.parts = [k \in 1..Len(final_state.parts) |->
                                      CatSlots(final_state.parts[k])]]

(***************************************************************************)
(* allennlp.nn.util.masked_log_softmax and the output projections.         *)
(***************************************************************************)
Masked == <<"masked">>

\* Index k of the result carries probability mass only where mask[k] = 1.
MaskedLogSoftmax(logits, mask) ==
    [k \in 1..Len(mask) |->
        IF mask[k] = 1 THEN <<"log_softmax", k - 1, logits>> ELSE Masked]

\* self.output_proj(h)
OutputProj(h) == <<"output_proj", h>>

(***************************************************************************)
(* VideoEncoder.forward                                                    *)
(***************************************************************************)
\* frames.reshape(frames.shape[0], frames.shape[1], -1): each frame's
\* (num_lmks, lmk_dim) landmarks become one row of num_lmks * lmk_dim numbers
RECURSIVE FlattenFrame(_)
FlattenFrame(frame) ==
    IF frame = <<>> THEN <<>> ELSE Head(frame) \o FlattenFrame(Tail(frame))

Flatten(frames) ==
    [i \in 1..Len(frames) |-> [t \in 1..Len(frames[i]) |-> FlattenFrame(frames[i][t])]]

\* pad_packed_sequence(batch_first=True): every sequence padded with zeros to
\* the longest length of the batch
PadPacked(e, outs) ==
    LET longest == Max({ Len(outs[j]) : j \in 1..Len(outs) })
        width   == e.hidden_size * Len(Directions(e.bidirectional))
    IN  [j \in 1..Len(outs) |->
            [t \in 1..longest |->
                IF t <= Len(outs[j]) THEN outs[j][t] ELSE ZeroVector(width)]]

EncoderFailed(status) ==
    [status |-> status, output_log_probs |-> <<>>, hidden_states |-> <<>>,
     final_state |-> [is_tuple |-> FALSE, parts |-> <<>>], round_trip |-> <<>>]

\* permutation_index is the order the unstable sort produced.
VideoEncoderForward(e, frames, frame_lens, permutation_index) ==
    LET flat    == IF e.frame_processing = "flatten" THEN Flatten(frames) ELSE frames
        sorted  == SortBatchByLength(flat, frame_lens, permutation_index)
        restore == sorted.restoration_indices
        \* pack_padded_sequence keeps the first sorted_frame_lens[j] frames
        packed  == [j \in 1..Len(flat) |->
                       SubSeq(sorted.sorted_tensor[j], 1, sorted.sorted_lens[j])]
        state0  == RnnState(e, packed)
        padded  == PadPacked(e, [j \in 1..Len(flat) |-> RnnOutputs(e, packed[j])])
        state1  == IF e.bidirectional THEN cat_directions(state0) ELSE state0
        hidden_states == IndexSelect0(padded, restore)
        final_state   == [state1 EXCEPT !.parts =
                             [k \in 1..Len(state1.parts) |->
                                 IndexSelect1(state1.parts[k], restore)]]
    IN  \* pack_padded_sequence rejects a length <= 0
        IF \E i \in 1..Len(frame_lens) : frame_lens[i] <= 0
        THEN EncoderFailed("RuntimeError")
        ELSE [status |-> "ok",
              output_log_probs |->
                  IF e.enable_ctc
                  THEN [i \in 1..Len(hidden_states) |->
                           [t \in 1..Len(hidden_states[i]) |->
                               MaskedLogSoftmax(OutputProj(hidden_states[i][t]),
                                                e.output_mask)]]
                  ELSE <<>>,
              hidden_states |-> hidden_states,
              final_state |-> final_state,
              round_trip |-> IndexSelect0(sorted.sorted_tensor, restore)]

\* A padded batch: sequence i's frame t holds two (1-dimensional) landmarks,
\* i and t, so that every frame of the batch is different.
FrameBatch(batch_size, seq_len) ==
    [i \in 1..batch_size |-> [t \in 1..seq_len |-> << <<i>>, <<t>> >>]]

EncForward(frames, frame_lens) ==
    \E p \in SortingPermutations(frame_lens) :
        /\ Idle
        /\ enc.status = "ok"
        /\ call' = [kind |-> "enc_forward", frames |-> frames,
                    frame_lens |-> frame_lens]
                   @@ VideoEncoderForward(enc, frames, frame_lens, p)
        /\ UNCHANGED <<enc, dec, best_error, fs_dirs, fs_files, last_save>>

\* forward on the batches of up to max_batch sequences padded to up to max_len
\* frames; frame_lens from 0 (rejected) to seq_len, duplicates included.
EncForwardCalls(max_batch, max_len) ==
    /\ Idle /\ enc.status = "ok"
    /\ \E n \in 1..max_batch, m \in 1..max_len :
          \E frame_lens \in [1..n -> 0..m] :
              EncForward(FrameBatch(n, m), frame_lens)

(***************************************************************************)
(* allennlp.nn.util.masked_softmax: softmax over the unmasked positions,   *)
(* the result multiplied by the mask, so a masked position weighs 0.       *)
(***************************************************************************)
Zero == <<"zero">>

MaskedSoftmax(logits, mask) ==
    [t \in 1..Len(logits) |->
        IF mask[t]
        THEN <<"softmax", t, [u \in 1..Len(logits) |->
                                 IF mask[u] THEN logits[u] ELSE Masked]>>
        ELSE Zero]

\* attn_weights.bmm(encoder_hidden_states): the sum over the timesteps of
\* weight * state; a zero weight contributes nothing.
Bmm(weights, states) ==
    <<"sum", [t \in 1..Len(weights) |->
                 IF weights[t] = Zero THEN Zero ELSE <<"mul", weights[t], states[t]>>]>>

(***************************************************************************)
(* CharDecodingStep.forward                                                *)
(***************************************************************************)
\* torch.arange(en_seq_len).expand(batch_size, en_seq_len) < encoder_lens.unsqueeze(dim=1)
\* (timestep t of the model is index t - 1 of the source)
ValidTimestepMutInclusive(t, encoder_len) == t - 1 <= encoder_len

ValidTimestep(t, encoder_len) == t - 1 < encoder_len

EncoderMask(encoder_lens, en_seq_len) ==
    [b \in 1..Len(encoder_lens) |->
        [t \in 1..en_seq_len |-> ValidTimestep(t, encoder_lens[b])]]

\* The unnormalised attention score of decoder state h against encoder state e;
\* with attention_type 'none' no branch assigns attn_logits.
AttnLogit(attention_type, h, e) ==
    CASE attention_type = "1_layer_nn" -> <<"attn_proj_1_layer_nn", <<e, h>> >>
      [] attention_type = "general"    -> <<"bmm", <<"attn_proj_general", h>>, e>>
      [] attention_type = "dot"        -> <<"sum_mul", h, e>>
      [] attention_type = "concat"     ->
            <<"attn_proj_layer2", <<"tanh", <<"attn_proj_layer1", <<e, h>> >> >> >>
      [] OTHER                         -> <<"unbound">>

\* if self.attention_type != 'none'
UsesAttentionMutAlways(attention_type) == TRUE

UsesAttention(attention_type) == attention_type # "none"

CharDecodingStepForward(d, input_, previous_state, encoder_lens, encoder_hidden_states) ==
    LET batch_size   == Len(input_)
        en_seq_len   == Len(encoder_hidden_states[1])
        encoder_mask == EncoderMask(encoder_lens, en_seq_len)
        embedded     == [b \in 1..batch_size |-> <<"embedding", input_[b]>>]
        hidden_state == [b \in 1..batch_size |->
                            <<"rnn_out", embedded[b], previous_state[b]>>]
        final_state  == [b \in 1..batch_size |->
                            <<"rnn_state", embedded[b], previous_state[b]>>]
        attn_logits  == [b \in 1..batch_size |->
                            [t \in 1..en_seq_len |->
                                AttnLogit(d.attention_type, hidden_state[b],
                                          encoder_hidden_states[b][t])]]
        attn_weights == [b \in 1..batch_size |->
                            MaskedSoftmax(attn_logits[b], encoder_mask[b])]
        context      == [b \in 1..batch_size |->
                            Bmm(attn_weights[b], encoder_hidden_states[b])]
        attends      == UsesAttention(d.attention_type)
        working      == [b \in 1..batch_size |->
                            IF attends
                            THEN <<"tanh", <<"concat_layer", <<context[b], hidden_state[b]>> >> >>
                            ELSE hidden_state[b]]
    IN  [status |-> "ok",
         encoder_mask |-> encoder_mask,
         attn_weights |-> IF attends THEN attn_weights ELSE <<>>,
         context |-> IF attends THEN context ELSE <<>>,
         output_log_probs |->
             [b \in 1..batch_size |->
                 MaskedLogSoftmax(OutputProj(working[b]), d.output_mask)],
         final_state |-> final_state]

\* Encoder states and recurrent states are opaque values.
EncoderStateValues == {"e0", "e1"}
PreviousStateValues == {"s0", "s1"}

DecForward(input_, previous_state, encoder_lens, encoder_hidden_states) ==
    /\ Idle
    /\ dec.status = "ok"
    /\ call' = [kind |-> "dec_forward", input_ |-> input_,
                previous_state |-> previous_state,
                encoder_lens |-> encoder_lens,
                encoder_hidden_states |-> encoder_hidden_states]
               @@ CharDecodingStepForward(dec, input_, previous_state,
                                          encoder_lens, encoder_hidden_states)
    /\ UNCHANGED <<enc, dec, best_error, fs_dirs, fs_files, last_save>>

\* One decoding step on batches of up to max_batch elements and encoder
\* outputs padded to up to max_len timesteps; encoder_lens from 0 to one more
\* than the padded length.
DecForwardCalls(max_batch, max_len, tokens, previous_states) ==
    /\ Idle /\ dec.status = "ok"
    /\ \E n \in 1..max_batch, m \in 1..max_len :
          \E i \in [1..n -> tokens], s \in [1..n -> previous_states],
             l \in [1..n -> 0..(m + 1)],
             h \in [1..n -> [1..m -> EncoderStateValues]] :
              DecForward(i, s, l, h)

\* The decoder is fed BOS or a character.
Tokens(d) == { d.char2idx.map[BOS], d.char2idx.map["a"] }

(***************************************************************************)
(* Specifications.                                                         *)
(***************************************************************************)
\* The vocabulary with PAD = 0 and BOS = 1.
Vocab0 ==
    [given |-> TRUE,
     map |-> CHOOSE m \in Vocabularies : m[PAD] = 0 /\ m[BOS] = 1]

\* VideoEncoder(frame_dim, HiddenSize): every default taken
DefaultEncoder ==
    VideoEncoderInit(HiddenSize, "flatten", "LSTM", 1, TRUE, FALSE, 0 - 1, NoChar2idx)

DefaultDecoder == CharDecodingStepInit(DefaultEncoder, MaxVocab, Vocab0, "none", 0 - 1)

\* The state before anything is constructed.
Init ==
    /\ enc = NotConstructed
    /\ dec = NotConstructed
    /\ call = NoCall
    /\ SaveInit

ConstructEncoderCalls ==
    /\ Running /\ enc.status = "NotConstructed"
    /\ \E fp \in FrameProcessingArgs, rt \in RnnTypeArgs, bd \in BOOLEAN,
          ctc \in BOOLEAN, vs \in VocabSizeArgs, c2i \in Char2idxArgs :
            ConstructEncoder(fp, rt, 1, bd, ctc, vs, c2i)

ConstructDecoderCalls ==
    /\ Running /\ enc.status = "ok" /\ dec.status = "NotConstructed"
    /\ \E vs \in VocabSizeArgs, c2i \in Char2idxArgs, at \in AttentionTypeArgs,
          ahs \in AttnHiddenSizeArgs :
            ConstructDecoder(vs, c2i, at, ahs)

NextCtor ==
    \/ ConstructEncoderCalls
    \/ ConstructDecoderCalls
    \/ EncForwardCalls(1, 1)
    \/ DecForwardCalls(1, 1, Tokens(dec), {"s0"})

\* Construction, and the first forward calls of what was constructed.
SpecCtor == Init /\ [][NextCtor]_vars

\* Both components constructed; the training loop reports errors.
InitSave ==
    /\ enc = DefaultEncoder
    /\ dec = DefaultDecoder
    /\ call = NoCall
    /\ SaveInit

SpecSave == InitSave /\ [][NextSave]_vars

\* An encoder of any valid configuration, run on batches.
InitEnc ==
    /\ enc \in { VideoEncoderInit(HiddenSize, "flatten", rt, nl, bd, ctc, MaxVocab, Vocab0) :
                    rt \in ALLOWED_RNN_TYPES, nl \in 1..MaxLayers,
                    bd \in BOOLEAN, ctc \in BOOLEAN }
    /\ dec = NotConstructed
    /\ call = NoCall
    /\ SaveInit

NextEnc == EncForwardCalls(MaxBatch, MaxSeqLen)

SpecEnc == InitEnc /\ [][NextEnc]_vars

\* A decoder of any attention variant, run one step at a time.
InitDec ==
    /\ enc = DefaultEncoder
    /\ dec \in { CharDecodingStepInit(DefaultEncoder, MaxVocab, Vocab0, at, HiddenSize) :
                    at \in ALLOWED_ATTENTION_TYPES }
    /\ call = NoCall
    /\ SaveInit

NextDec == DecForwardCalls(MaxDecBatch, MaxSeqLen, Tokens(dec), PreviousStateValues)

SpecDec == InitDec /\ [][NextDec]_vars

Next == NextCtor \/ NextSave \/ NextEnc \/ NextDec

Spec == Init /\ [][Next]_vars

(***************************************************************************)
(* Properties of save_best_model, under SpecSave.                          *)
(***************************************************************************)
SavedBy(c, error) == [component |-> c, error |-> error]

\* C1: a save_best_model(error, path) call writes the checkpoint and sets
\* best_error to error if and only if error < best_error; with
\* error >= best_error it writes nothing and leaves best_error unchanged.
C1_WritesIffStrictlyBetter ==
    last_save.called =>
        LET c == last_save.component
        IN  /\ (last_save.wrote /\ best_error[c] = last_save.error)
                  <=> (last_save.error < last_save.prev_best)
            /\ last_save.wrote => fs_files[last_save.file_path] = SavedBy(c, last_save.error)
            /\ last_save.error >= last_save.prev_best =>
                  ~last_save.wrote /\ best_error[c] = last_save.prev_best

\* C2: best_error is 1 after construction, never above 1, and no call of
\* save_best_model raises it.
C2_BestErrorNeverRises ==
    /\ \A c \in Components : best_error[c] = Denom
    /\ [](\A c \in Components : best_error[c] <= Denom)
    /\ [][\A c \in Components : best_error[c]' <= best_error[c]]_vars

\* A worse error was reported after an improvement, and best_error kept.
C2_Witness ==
    /\ last_save.called
    /\ best_error[last_save.component] < Denom
    /\ last_save.error > best_error[last_save.component]

\* C10: a save_best_model call that raises (directory creation or the write
\* failed) leaves best_error as it was, so whenever best_error < 1 the
\* checkpoint of the call that set it exists.
C10_FailedSaveKeepsBestError ==
    /\ (last_save.called /\ last_save.raised # None) =>
          best_error[last_save.component] = last_save.prev_best
    /\ \A c \in Components :
          best_error[c] < Denom =>
              \E p \in FilePaths : fs_files[p] = SavedBy(c, best_error[c])

(***************************************************************************)
(* Properties of the constructors, under SpecCtor.                         *)
(***************************************************************************)
\* C4: PAD and BOS are masked out of every output distribution: the decoder
\* step's at char2idx[PAD] and char2idx[BOS], the encoder's CTC output at
\* those indices plus one; CTC index 0, the blank, is never masked.
C4_PadBosMasked ==
    /\ (enc.status = "ok" /\ enc.enable_ctc) =>
          /\ Len(enc.output_mask) = enc.vocab_size + 1
          /\ enc.output_mask[(enc.char2idx.map[PAD] + 1) + 1] = 0
          /\ enc.output_mask[(enc.char2idx.map[BOS] + 1) + 1] = 0
          /\ enc.output_mask[0 + 1] = 1
    /\ dec.status = "ok" =>
          /\ Len(dec.output_mask) = dec.vocab_size
          /\ dec.output_mask[dec.char2idx.map[PAD] + 1] = 0
          /\ dec.output_mask[dec.char2idx.map[BOS] + 1] = 0
    /\ (call.kind = "enc_forward" /\ call.status = "ok" /\ enc.enable_ctc) =>
          \A i \in 1..Len(call.output_log_probs) :
              \A t \in 1..Len(call.output_log_probs[i]) :
                  /\ call.output_log_probs[i][t][(enc.char2idx.map[PAD] + 1) + 1] = Masked
                  /\ call.output_log_probs[i][t][(enc.char2idx.map[BOS] + 1) + 1] = Masked
                  /\ call.output_log_probs[i][t][0 + 1] # Masked
    /\ (call.kind = "dec_forward" /\ call.status = "ok") =>
          \A b \in 1..Len(call.output_log_probs) :
              /\ call.output_log_probs[b][dec.char2idx.map[PAD] + 1] = Masked
              /\ call.output_log_probs[b][dec.char2idx.map[BOS] + 1] = Masked

\* A CTC encoder whose PAD is index 0 has produced an output distribution.
C4_Witness ==
    /\ call.kind = "enc_forward" /\ call.status = "ok"
    /\ enc.enable_ctc /\ enc.char2idx.map[PAD] = 0
    /\ dec.status = "ok"

\* C5: construction fails for every invalid configuration: a VideoEncoder
\* with rnn_type not LSTM/GRU/RNN, frame_processing not 'flatten', or
\* enable_ctc without vocab_size > 0 and a char2idx; a CharDecodingStep with
\* attention_type not one of the five, or 'concat' with attn_hidden_size <= 0.
C5_InvalidConfigurationRejected ==
    /\ (/\ call.kind = "enc_init"
        /\ \/ call.rnn_type \notin {"LSTM", "GRU", "RNN"}
           \/ call.frame_processing # "flatten"
           \/ call.enable_ctc /\ ~(call.vocab_size > 0 /\ call.char2idx.given))
          => (call.status # "ok" /\ enc.status = "NotConstructed")
    /\ (/\ call.kind = "dec_init"
        /\ \/ call.attention_type \notin {"none", "dot", "general", "1_layer_nn", "concat"}
           \/ call.attention_type = "concat" /\ call.attn_hidden_size <= 0)
          => (call.status # "ok" /\ dec.status = "NotConstructed")
    /\ enc.status = "ok" =>
          /\ enc.rnn_type \in {"LSTM", "GRU", "RNN"}
          /\ enc.frame_processing = "flatten"
    /\ dec.status = "ok" =>
          dec.attention_type \in {"none", "dot", "general", "1_layer_nn", "concat"}

\* A 'concat' decoder without an attention width was refused, after an
\* encoder was built.
C5_Witness ==
    /\ call.kind = "dec_init" /\ call.status = "AssertionError"
    /\ call.attention_type = "concat" /\ call.attn_hidden_size <= 0
    /\ enc.status = "ok" /\ dec.status = "NotConstructed"

(***************************************************************************)
(* Properties of VideoEncoder.forward, under SpecEnc.                      *)
(***************************************************************************)
EncReturned == call.kind = "enc_forward" /\ call.status = "ok"

\* The valid frames of input sequence i, flattened: what the recurrent layer
\* is to read for batch position i.
ValidFrames(i) == SubSeq(Flatten(call.frames)[i], 1, call.frame_lens[i])

\* C3: sorting the batch by descending length and applying the restoration
\* permutation gives back the original batch, whatever the lengths, so
\* position i of the returned hidden_states and of every component of
\* final_state belongs to input sequence i.
C3_OriginalOrderRestored ==
    EncReturned =>
        /\ call.round_trip = Flatten(call.frames)
        /\ Len(call.hidden_states) = Len(call.frames)
        /\ \A i \in 1..Len(call.frames) :
              /\ \A t \in 1..Len(call.hidden_states[i]) :
                    call.hidden_states[i][t] =
                        IF t <= call.frame_lens[i]
                        THEN RnnOutputs(enc, ValidFrames(i))[t]
                        ELSE ZeroVector(Len(call.hidden_states[i][t]))
              /\ \A k \in 1..Len(call.final_state.parts) :
                    \A l \in 1..Len(call.final_state.parts[k]) :
                        /\ Len(call.final_state.parts[k][l]) = Len(call.frames)
                        /\ \A u \in 1..Len(call.final_state.parts[k][l][i]) :
                              call.final_state.parts[k][l][i][u][5] = ValidFrames(i)

\* Three sequences, the shortest first and two of equal length, of an LSTM.
C3_Witness ==
    /\ EncReturned
    /\ enc.rnn_type = "LSTM"
    /\ call.frame_lens = <<1, 2, 2>>

\* C8: for a bidirectional encoder of L layers, _cat_directions turns a
\* (2L, batch, hidden) state into (L, batch, 2 * hidden): layer l is slot 2l
\* (forward) followed along the feature axis by slot 2l+1 (backward); both
\* components of an LSTM state are mapped this way.
C8_DirectionsConcatenated ==
    (EncReturned /\ enc.bidirectional) =>
        LET raw == RnnState(enc, [i \in 1..Len(call.frames) |-> ValidFrames(i)])
        IN  /\ call.final_state.is_tuple <=> enc.rnn_type = "LSTM"
            /\ Len(call.final_state.parts) = IF enc.rnn_type = "LSTM" THEN 2 ELSE 1
            /\ \A k \in 1..Len(call.final_state.parts) :
                  /\ Len(raw.parts[k]) = 2 * enc.num_layers
                  /\ Len(call.final_state.parts[k]) = enc.num_layers
                  /\ \A l \in 1..enc.num_layers, i \in 1..Len(call.frames) :
                        LET v == call.final_state.parts[k][l][i]
                        IN  /\ Len(v) = 2 * enc.hidden_size
                            /\ v = raw.parts[k][2 * (l - 1) + 1][i]
                                     \o raw.parts[k][(2 * (l - 1) + 1) + 1][i]
                            /\ \A u \in 1..enc.hidden_size :
                                  /\ v[u][2] = l /\ v[u][3] = "fwd"
                                  /\ v[enc.hidden_size + u][2] = l
                                  /\ v[enc.hidden_size + u][3] = "bwd"

\* A bidirectional LSTM of more than one layer has encoded a batch.
C8_Witness ==
    /\ EncReturned
    /\ enc.bidirectional /\ enc.rnn_type = "LSTM" /\ enc.num_layers > 1
    /\ Len(call.frames) > 1

(***************************************************************************)
(* Properties of CharDecodingStep.forward, under SpecDec.                  *)
(***************************************************************************)
DecCalled == call.kind = "dec_forward"

\* C6: a forward call given a length above the padded sequence dimension
\* fails instead of returning a result.
C6_OverlongLengthFails ==
    /\ (call.kind = "enc_forward"
        /\ \E i \in 1..Len(call.frame_lens) : call.frame_lens[i] > Len(call.frames[i]))
          => call.status # "ok"
    /\ (call.kind = "dec_forward"
        /\ \E b \in 1..Len(call.encoder_lens) :
              call.encoder_lens[b] > Len(call.encoder_hidden_states[b]))
          => call.status # "ok"

\* Encoder states of the shape of the call's, every one of them v.
ConstantStates(v) ==
    [b \in 1..Len(call.encoder_hidden_states) |->
        [t \in 1..Len(call.encoder_hidden_states[b]) |-> v]]

ConstantLens(n) == [b \in 1..Len(call.encoder_lens) |-> n]

\* C7: with attention_type 'none' the output log-probabilities and the new
\* state do not depend on the encoder states' content or on encoder_lens.
\* Every call returns what the same input_ and previous_state return with
\* encoder states all e0 or all e1 and lengths all 0 or all overlong; hence
\* any two calls that agree on input_ and previous_state return the same.
C7_NoAttentionIgnoresEncoder ==
    (DecCalled /\ dec.attention_type = "none") =>
        \A v \in EncoderStateValues :
            \A n \in {0, Len(call.encoder_hidden_states[1]) + 1} :
                LET other == CharDecodingStepForward(dec, call.input_,
                                 call.previous_state, ConstantLens(n), ConstantStates(v))
                IN  /\ other.output_log_probs = call.output_log_probs
                    /\ other.final_state = call.final_state

\* A decoder without attention was given encoder states that differ.
C7_Witness ==
    /\ DecCalled /\ dec.attention_type = "none"
    /\ call.encoder_hidden_states[1] = <<"e0", "e1">>
    /\ call.encoder_lens[1] = 1

\* The call's encoder states with v in place of every padded timestep.
PaddingReplaced(v) ==
    [b \in 1..Len(call.encoder_hidden_states) |->
        [t \in 1..Len(call.encoder_hidden_states[b]) |->
            IF t - 1 < call.encoder_lens[b]
            THEN call.encoder_hidden_states[b][t] ELSE v]]

\* C9: with attention, timestep t of batch element b is valid iff
\* t < encoder_lens[b]; an invalid timestep's weight is exactly zero, so the
\* context (and the output) depends on the valid timesteps' states only.
C9_PaddingGetsNoWeight ==
    (DecCalled /\ dec.attention_type # "none") =>
        /\ \A b \in 1..Len(call.input_) :
              \A t \in 1..Len(call.encoder_hidden_states[b]) :
                  /\ call.encoder_mask[b][t] <=> (t - 1 < call.encoder_lens[b])
                  /\ (call.attn_weights[b][t] = Zero) <=> ~(t - 1 < call.encoder_lens[b])
        /\ \A v \in EncoderStateValues :
              LET other == CharDecodingStepForward(dec, call.input_,
                               call.previous_state, call.encoder_lens, PaddingReplaced(v))
              IN  /\ other.context = call.context
                  /\ other.output_log_probs = call.output_log_probs

\* Dot attention over two timesteps, the second of them padding.
C9_Witness ==
    /\ DecCalled /\ dec.attention_type = "dot"
    /\ call.encoder_lens[1] = 1
    /\ call.encoder_hidden_states[1] = <<"e0", "e1">>

====
